---------------------------- MODULE Spec2Model ----------------------------
(***************************************************************************)
(* ngx-cookie: CookieService (cookie.service.ts) over document.cookie.     *)
(*                                                                         *)
(* JavaScript values are encoded as sequences of integers:                 *)
(*   a string is the sequence of its code points (all >= 0);               *)
(*   the other values are tagged by a negative first element.              *)
(***************************************************************************)
EXTENDS Integers, Sequences, FiniteSets, TLC

(***************************************************************************)
(* Characters and string literals                                          *)
(***************************************************************************)
Ascii ==
  << " ", "!", "DQUOTE", "#", "$", "%", "&", "'", "(", ")", "*", "+", ",",
     "-", ".", "/", "0", "1", "2", "3", "4", "5", "6", "7", "8", "9", ":",
     ";", "<", "=", ">", "?", "@", "A", "B", "C", "D", "E", "F", "G", "H",
     "I", "J", "K", "L", "M", "N", "O", "P", "Q", "R", "S", "T", "U", "V",
     "W", "X", "Y", "Z", "[", "BACKSLASH", "]", "^", "_", "BACKTICK", "a",
     "b", "c", "d", "e", "f", "g", "h", "i", "j", "k", "l", "m", "n", "o",
     "p", "q", "r", "s", "t", "u", "v", "w", "x", "y", "z", "{", "|", "}",
     "~" >>

\* code point of a one-character literal (space is 32, tilde is 126); the
\* double quote, backslash and backtick are written by name
Ord(c) == 31 + (CHOOSE i \in 1..Len(Ascii) : Ascii[i] = c)

\* the string written with the characters cs
S(cs) == [i \in 1..Len(cs) |-> Ord(cs[i])]

\* a one-character string outside ASCII: U+00E9
NonAscii == << 233 >>

(***************************************************************************)
(* JavaScript values other than strings                                    *)
(***************************************************************************)
undefined == << -1 >>

false == << -2 >>

true == << -3 >>

\* a Date object; t is its time value in days since the epoch, -1 when NaN
Date(t) == << -4, t >>

\* a member inherited from Object.prototype (a function or an object)
inherited == << -5 >>

\* a reference to the object heap[id]
ObjRef(id) == << -6, id >>

null == << -8 >>

isString(v) == v = << >> \/ v[1] >= 0

\* ToBoolean
Truthy(v) == v \notin { undefined, null, false, << >> }

(***************************************************************************)
(* String primitives: indexOf, substring, split                            *)
(***************************************************************************)
StartsWith(s, p) == Len(s) >= Len(p) /\ SubSeq(s, 1, Len(p)) = p

\* p occurs in s at the 0-based position i
OccursAt(s, p, i) == SubSeq(s, i + 1, i + Len(p)) = p

\* the 0-based position of the first occurrence of p in s at or after i, or -1
indexFrom(s, p, i) ==
  IF \E k \in i..(Len(s) - Len(p)) : OccursAt(s, p, k)
  THEN CHOOSE k \in i..(Len(s) - Len(p)) :
         OccursAt(s, p, k) /\ \A j \in i..(k - 1) : ~OccursAt(s, p, j)
  ELSE -1

\* String.prototype.indexOf
indexOf(s, p) == indexFrom(s, p, 0)

\* String.prototype.substring(from, to) with 0-based, end-exclusive positions
substring(s, from, to) == SubSeq(s, from + 1, to)

\* String.prototype.split with a non-empty separator: the empty string
\* splits to one empty segment
RECURSIVE split(_, _)
splitAt(s, sep, i) ==
  IF i < 0 THEN << s >>
  ELSE << substring(s, 0, i) >> \o split(substring(s, i + Len(sep), Len(s)), sep)

split(s, sep) == splitAt(s, sep, indexOf(s, sep))

\* Array.prototype.join
RECURSIVE join(_, _)
join(segs, sep) ==
  IF segs = << >> THEN << >>
  ELSE IF Len(segs) = 1 THEN segs[1]
  ELSE segs[1] \o sep \o join(Tail(segs), sep)

(***************************************************************************)
(* encodeURIComponent and decodeURIComponent (ECMA-262 19.2.6)             *)
(***************************************************************************)
\* A-Z a-z 0-9 - _ . ! ~ * ' ( )
Unreserved ==
  (65..90) \cup (97..122) \cup (48..57) \cup { 45, 95, 46, 33, 126, 42, 39, 40, 41 }

HexDigit(n) == IF n < 10 THEN 48 + n ELSE 55 + n

HexVal(c) ==
  IF c \in 48..57 THEN c - 48
  ELSE IF c \in 65..70 THEN c - 55
  ELSE IF c \in 97..102 THEN c - 87
  ELSE -1

PercentByte(b) == << 37, HexDigit(b \div 16), HexDigit(b % 16) >>

\* the UTF-8 octets of a code point
Utf8(cp) ==
  IF cp < 128 THEN << cp >>
  ELSE IF cp < 2048 THEN << 192 + (cp \div 64), 128 + (cp % 64) >>
  ELSE IF cp < 65536
    THEN << 224 + (cp \div 4096), 128 + ((cp \div 64) % 64), 128 + (cp % 64) >>
  ELSE << 240 + (cp \div 262144), 128 + ((cp \div 4096) % 64),
          128 + ((cp \div 64) % 64), 128 + (cp % 64) >>

RECURSIVE PercentBytes(_)
PercentBytes(bs) ==
  IF bs = << >> THEN << >> ELSE PercentByte(Head(bs)) \o PercentBytes(Tail(bs))

EncodeChar(c) == IF c \in Unreserved THEN << c >> ELSE PercentBytes(Utf8(c))

\* the characters lo..hi of s, encoded one by one
RECURSIVE encodeRange(_, _, _)
encodeRange(s, lo, hi) ==
  IF lo > hi THEN << >>
  ELSE IF lo = hi THEN EncodeChar(s[lo])
  ELSE encodeRange(s, lo, (lo + hi) \div 2) \o encodeRange(s, (lo + hi) \div 2 + 1, hi)

encodeURIComponent(s) == encodeRange(s, 1, Len(s))

\* the octet written %XX at 1-based position i of s, or -1
OctetAt(s, i) ==
  IF i + 2 <= Len(s) /\ s[i] = 37 /\ HexVal(s[i + 1]) >= 0 /\ HexVal(s[i + 2]) >= 0
  THEN 16 * HexVal(s[i + 1]) + HexVal(s[i + 2])
  ELSE -1

\* number of octets of the UTF-8 sequence that starts with octet b, 0 when
\* none does
Utf8Length(b) ==
  IF b < 0 THEN 0
  ELSE IF b < 128 THEN 1
  ELSE IF b \in 194..223 THEN 2
  ELSE IF b \in 224..239 THEN 3
  ELSE IF b \in 240..244 THEN 4
  ELSE 0

\* the payload of a continuation octet, or -1
ContinuationOf(b) == IF b \in 128..191 THEN b - 128 ELSE -1

\* a code point that n octets may encode, or -1
CodePoint(n, cp) ==
  IF n = 3 /\ (cp < 2048 \/ cp \in 55296..57343) THEN -1
  ELSE IF n = 4 /\ (cp < 65536 \/ cp > 1114111) THEN -1
  ELSE cp

\* the code point of n octets: the first one b, then the payloads c1, c2, c3
DecodeOctets(n, b, c1, c2, c3) ==
  IF n = 1 THEN b
  ELSE IF n = 2 THEN (IF c1 < 0 THEN -1 ELSE (b - 192) * 64 + c1)
  ELSE IF n = 3
    THEN (IF c1 < 0 \/ c2 < 0 THEN -1
          ELSE CodePoint(3, (b - 224) * 4096 + c1 * 64 + c2))
  ELSE IF n = 4
    THEN (IF c1 < 0 \/ c2 < 0 \/ c3 < 0 THEN -1
          ELSE CodePoint(4, (b - 240) * 262144 + c1 * 4096 + c2 * 64 + c3))
  ELSE -1

\* the code point of the escape sequence of n octets at position i, or -1
DecodeAt(s, i, n) ==
  DecodeOctets(n, OctetAt(s, i), ContinuationOf(OctetAt(s, i + 3)),
               ContinuationOf(OctetAt(s, i + 6)), ContinuationOf(OctetAt(s, i + 9)))

\* stands for the URIError decodeURIComponent throws
URIError == << -7 >>

Prepend(c, rest) == IF rest = URIError THEN URIError ELSE << c >> \o rest

RECURSIVE decodeFrom(_, _)
decodeCodePoint(s, i, n, cp) ==
  IF n = 0 \/ cp < 0 THEN URIError ELSE Prepend(cp, decodeFrom(s, i + 3 * n))

decodeEscape(s, i, n) == decodeCodePoint(s, i, n, DecodeAt(s, i, n))

decodeFrom(s, i) ==
  IF i > Len(s) THEN << >>
  ELSE IF s[i] # 37 THEN Prepend(s[i], decodeFrom(s, i + 1))
  ELSE decodeEscape(s, i, Utf8Length(OctetAt(s, i)))

decodeURIComponent(s) == decodeFrom(s, 1)

(***************************************************************************)
(* utils.ts: isBlank, isPresent, mergeOptions, safeDecodeURIComponent      *)
(***************************************************************************)
\* absent or empty
isBlank(obj) == obj \in { undefined, null, << >> }

isPresent(obj) == obj \notin { undefined, null }

OrElse(d, str) == IF d = URIError THEN str ELSE d

\* decodeURIComponent, and the text itself when that throws
safeDecodeURIComponent(str) == OrElse(decodeURIComponent(str), str)

OptionKeys ==
  { "path", "domain", "expires", "secure", "httpOnly", "sameSite", "storeUnencoded" }

\* a CookieOptions object with no key set
NoOptions == [k \in OptionKeys |-> undefined]

\* An optional CookieOptions argument is << >> when not passed and << o >>
\* when passed.  Per key, the call site's value when it is present, else
\* the old one.
mergeOptions(oldOptions, newOptions) ==
  IF newOptions = << >> THEN oldOptions
  ELSE [k \in OptionKeys |->
          IF isPresent(newOptions[1][k]) THEN newOptions[1][k] ELSE oldOptions[k]]

(***************************************************************************)
(* Objects: the own properties in insertion order, over Object.prototype   *)
(***************************************************************************)
ObjectPrototypeKeys ==
  { S(<< "c", "o", "n", "s", "t", "r", "u", "c", "t", "o", "r" >>),
    S(<< "t", "o", "S", "t", "r", "i", "n", "g" >>),
    S(<< "t", "o", "L", "o", "c", "a", "l", "e", "S", "t", "r", "i", "n",
        "g" >>),
    S(<< "v", "a", "l", "u", "e", "O", "f" >>),
    S(<< "h", "a", "s", "O", "w", "n", "P", "r", "o", "p", "e", "r", "t",
        "y" >>),
    S(<< "i", "s", "P", "r", "o", "t", "o", "t", "y", "p", "e", "O", "f" >>),
    S(<< "p", "r", "o", "p", "e", "r", "t", "y", "I", "s", "E", "n", "u", "m",
        "e", "r", "a", "b", "l", "e" >>),
    S(<< "_", "_", "p", "r", "o", "t", "o", "_", "_" >>) }

\* {}
EmptyObject == << >>

\* Object.keys(obj)
Keys(obj) == [i \in 1..Len(obj) |-> obj[i][1]]

HasOwn(obj, name) == \E i \in 1..Len(obj) : obj[i][1] = name

\* obj[name]: the own property, else the member Object.prototype has by
\* that name, else undefined
GetProp(obj, name) ==
  IF HasOwn(obj, name) THEN obj[CHOOSE i \in 1..Len(obj) : obj[i][1] = name][2]
  ELSE IF name \in ObjectPrototypeKeys THEN inherited
  ELSE undefined

\* obj[name] = value, for a name Object.prototype holds no setter for
SetProp(obj, name, value) ==
  IF HasOwn(obj, name)
  THEN [i \in 1..Len(obj) |-> IF obj[i][1] = name THEN << name, value >> ELSE obj[i]]
  ELSE Append(obj, << name, value >>)

(***************************************************************************)
(* JSON.stringify and JSON.parse (ECMA-262 25.5) on numbers that are       *)
(* integers, strings, booleans, null, arrays and plain objects             *)
(***************************************************************************)
\* the Number n
Num(n) == << -9, n >>

NaN == << -10 >>

\* an Array of the elements elems
Arr(elems) == << -11, elems >>

\* a plain object of the members << name, value >>, in insertion order
Obj(members) == << -12, members >>

\* a Number with a fraction or an exponent
Fraction == << -15 >>

TrueText == S(<< "t", "r", "u", "e" >>)

FalseText == S(<< "f", "a", "l", "s", "e" >>)

NullText == S(<< "n", "u", "l", "l" >>)

Comma == S(<< "," >>)

Colon == S(<< ":" >>)

RECURSIVE digits(_)
digits(n) == IF n < 10 THEN << 48 + n >> ELSE digits(n \div 10) \o << 48 + (n % 10) >>

\* Number::toString of an integer
numberText(n) == IF n < 0 THEN << 45 >> \o digits(-n) ELSE digits(n)

\* QuoteJSONString, one character
QuoteChar(c) ==
  IF c = 34 THEN << 92, 34 >>
  ELSE IF c = 92 THEN << 92, 92 >>
  ELSE IF c = 8 THEN << 92, 98 >>
  ELSE IF c = 9 THEN << 92, 116 >>
  ELSE IF c = 10 THEN << 92, 110 >>
  ELSE IF c = 12 THEN << 92, 102 >>
  ELSE IF c = 13 THEN << 92, 114 >>
  ELSE IF c < 32 THEN << 92, 117, 48, 48, HexDigit(c \div 16) >>
                      \o (IF c % 16 < 10 THEN << 48 + (c % 16) >> ELSE << 87 + (c % 16) >>)
  ELSE << c >>

RECURSIVE quoteChars(_)
quoteChars(s) == IF s = << >> THEN << >> ELSE QuoteChar(Head(s)) \o quoteChars(Tail(s))

Quote(s) == << 34 >> \o quoteChars(s) \o << 34 >>

\* JSON.stringify(v): a text, or undefined for undefined and for a function
RECURSIVE stringify(_)
elementText(v) == IF stringify(v) = undefined THEN NullText ELSE stringify(v)

Serializable(member) == stringify(member[2]) # undefined

memberText(member) == Quote(member[1]) \o Colon \o stringify(member[2])

memberTexts(members) == [i \in 1..Len(members) |-> memberText(members[i])]

stringify(v) ==
  IF v = undefined \/ v = inherited THEN undefined
  ELSE IF v = null \/ v = NaN THEN NullText
  ELSE IF v = true THEN TrueText
  ELSE IF v = false THEN FalseText
  ELSE IF isString(v) THEN Quote(v)
  ELSE IF v[1] = -9 THEN numberText(v[2])
  ELSE IF v[1] = -11
    THEN << 91 >> \o join([i \in 1..Len(v[2]) |-> elementText(v[2][i])], Comma) \o << 93 >>
  ELSE << 123 >> \o join(memberTexts(SelectSeq(v[2], Serializable)), Comma) \o << 125 >>

\* stands for the SyntaxError JSON.parse throws
SyntaxError == << -14 >>

\* the character at the 1-based position i of s, -1 past the end
At(s, i) == IF i <= Len(s) THEN s[i] ELSE -1

RECURSIVE skipWhitespace(_, _)
skipWhitespace(s, i) ==
  IF At(s, i) \in { 32, 9, 10, 13 } THEN skipWhitespace(s, i + 1) ELSE i

\* A parse of a part of s is << value, position after it >> or SyntaxError.
Cons(c, rest) ==
  IF rest = SyntaxError THEN SyntaxError ELSE << << c >> \o rest[1], rest[2] >>

EscapeOf(c) ==
  IF c \in { 34, 92, 47 } THEN c
  ELSE IF c = 98 THEN 8
  ELSE IF c = 102 THEN 12
  ELSE IF c = 110 THEN 10
  ELSE IF c = 114 THEN 13
  ELSE IF c = 116 THEN 9
  ELSE -1

\* the code unit written with the four hex digits at i, or -1
Hex4(s, i) ==
  IF i + 3 <= Len(s) /\ \A k \in 0..3 : HexVal(s[i + k]) >= 0
  THEN 4096 * HexVal(s[i]) + 256 * HexVal(s[i + 1]) + 16 * HexVal(s[i + 2])
       + HexVal(s[i + 3])
  ELSE -1

\* the characters of a string literal from position i to its closing quote
RECURSIVE parseChars(_, _)
parseEscape(s, i) ==
  IF At(s, i) = 117
  THEN (IF Hex4(s, i + 1) < 0 THEN SyntaxError
        ELSE Cons(Hex4(s, i + 1), parseChars(s, i + 5)))
  ELSE IF EscapeOf(At(s, i)) < 0 THEN SyntaxError
  ELSE Cons(EscapeOf(At(s, i)), parseChars(s, i + 1))

parseChars(s, i) ==
  IF i > Len(s) THEN SyntaxError
  ELSE IF s[i] = 34 THEN << << >>, i + 1 >>
  ELSE IF s[i] = 92 THEN parseEscape(s, i + 1)
  ELSE IF s[i] < 32 THEN SyntaxError
  ELSE Cons(s[i], parseChars(s, i + 1))

RECURSIVE digitsEnd(_, _)
digitsEnd(s, i) == IF At(s, i) \in 48..57 THEN digitsEnd(s, i + 1) ELSE i

\* the value of the digits of s from i up to j
RECURSIVE natural(_, _, _)
natural(s, i, j) == IF j <= i THEN 0 ELSE 10 * natural(s, i, j - 1) + (s[j - 1] - 48)

\* the end of the integer part at i: a single 0, or digits
intEnd(s, i) == IF At(s, i) = 48 THEN i + 1 ELSE digitsEnd(s, i)

\* the end of the exponent that may start at i
expDigits(s, i) == IF digitsEnd(s, i) = i THEN -1 ELSE digitsEnd(s, i)

expEnd(s, i) ==
  IF At(s, i) \notin { 101, 69 } THEN i
  ELSE IF At(s, i + 1) \in { 43, 45 } THEN expDigits(s, i + 2)
  ELSE expDigits(s, i + 1)

\* the end of the fraction and the exponent that may start at i
fracEnd(s, i) ==
  IF At(s, i) # 46 THEN expEnd(s, i)
  ELSE IF digitsEnd(s, i + 1) = i + 1 THEN -1
  ELSE expEnd(s, digitsEnd(s, i + 1))

numberOf(s, i, j, end, sign) ==
  IF j = i \/ end < 0 THEN SyntaxError
  ELSE IF end > j THEN << Fraction, end >>
  ELSE << Num(sign * natural(s, i, j)), j >>

parseDigits(s, i, j, sign) == numberOf(s, i, j, fracEnd(s, j), sign)

parseNumber(s, i) ==
  IF At(s, i) = 45 THEN parseDigits(s, i + 1, intEnd(s, i + 1), -1)
  ELSE parseDigits(s, i, intEnd(s, i), 1)

LiteralAt(s, p, i) == i + Len(p) - 1 <= Len(s) /\ SubSeq(s, i, i + Len(p) - 1) = p

parseLiteral(s, i) ==
  IF LiteralAt(s, TrueText, i) THEN << true, i + 4 >>
  ELSE IF LiteralAt(s, FalseText, i) THEN << false, i + 5 >>
  ELSE IF LiteralAt(s, NullText, i) THEN << null, i + 4 >>
  ELSE SyntaxError

RECURSIVE parseValue(_, _)
RECURSIVE parseElements(_, _, _)
RECURSIVE parseMembers(_, _, _)
elementsNext(s, i, acc) ==
  IF At(s, i) = 44 THEN parseElements(s, i + 1, acc)
  ELSE IF At(s, i) = 93 THEN << Arr(acc), i + 1 >>
  ELSE SyntaxError

elementsAfter(s, r, acc) ==
  IF r = SyntaxError THEN SyntaxError
  ELSE elementsNext(s, skipWhitespace(s, r[2]), Append(acc, r[1]))

parseElements(s, i, acc) == elementsAfter(s, parseValue(s, i), acc)

parseArray(s, i) ==
  IF At(s, i) = 93 THEN << Arr(<< >>), i + 1 >> ELSE parseElements(s, i, << >>)

membersNext(s, i, acc) ==
  IF At(s, i) = 44 THEN parseMembers(s, skipWhitespace(s, i + 1), acc)
  ELSE IF At(s, i) = 125 THEN << Obj(acc), i + 1 >>
  ELSE SyntaxError

memberValue(s, key, r, acc) ==
  IF r = SyntaxError THEN SyntaxError
  ELSE membersNext(s, skipWhitespace(s, r[2]), SetProp(acc, key, r[1]))

memberColon(s, key, i, acc) ==
  IF At(s, i) # 58 THEN SyntaxError
  ELSE memberValue(s, key, parseValue(s, i + 1), acc)

memberKey(s, k, acc) ==
  IF k = SyntaxError THEN SyntaxError
  ELSE memberColon(s, k[1], skipWhitespace(s, k[2]), acc)

parseMembers(s, i, acc) ==
  IF At(s, i) # 34 THEN SyntaxError ELSE memberKey(s, parseChars(s, i + 1), acc)

parseObject(s, i) ==
  IF At(s, i) = 125 THEN << Obj(<< >>), i + 1 >> ELSE parseMembers(s, i, << >>)

parseValueAt(s, i) ==
  IF At(s, i) = 123 THEN parseObject(s, skipWhitespace(s, i + 1))
  ELSE IF At(s, i) = 91 THEN parseArray(s, skipWhitespace(s, i + 1))
  ELSE IF At(s, i) = 34 THEN parseChars(s, i + 1)
  ELSE IF At(s, i) = 45 \/ At(s, i) \in 48..57 THEN parseNumber(s, i)
  ELSE parseLiteral(s, i)

parseValue(s, i) == parseValueAt(s, skipWhitespace(s, i))

parseWhole(s, r) ==
  IF r = SyntaxError THEN SyntaxError
  ELSE IF skipWhitespace(s, r[2]) = Len(s) + 1 THEN r[1]
  ELSE SyntaxError

\* JSON.parse(text); the text of a function is no JSON text
JSONparse(text) ==
  IF isString(text) THEN parseWhole(text, parseValue(text, 1)) ELSE SyntaxError

OrRaw(parsed, str) == IF parsed = SyntaxError THEN str ELSE parsed

\* utils.ts: JSON.parse, and the argument itself when that throws
safeJsonParse(str) == OrRaw(JSONparse(str), str)

(***************************************************************************)
(* CookieService._readCookies, lines 143-158: the parse of a jar string    *)
(***************************************************************************)
Separator == S(<< ";", " " >>)

Equals == S(<< "=" >>)

\* lines 150-157: the segment cookie with its name, "=" at position index
readNamed(lastCookies, cookie, index, name) ==
  IF isPresent(GetProp(lastCookies, name)) THEN lastCookies
  ELSE SetProp(lastCookies, name,
               safeDecodeURIComponent(substring(cookie, index + 1, Len(cookie))))

\* lines 147-150 with a nameless segment let through
readAtNameless(lastCookies, cookie, index) ==
  IF index < 0 THEN lastCookies
  ELSE readNamed(lastCookies, cookie, index,
                 safeDecodeURIComponent(substring(cookie, 0, index)))

\* lines 147-150
readAt(lastCookies, cookie, index) ==
  IF index <= 0 THEN lastCookies
  ELSE readNamed(lastCookies, cookie, index,
                 safeDecodeURIComponent(substring(cookie, 0, index)))

\* one turn of the for loop, on the map built so far
readSegment(lastCookies, cookie) == readAt(lastCookies, cookie, indexOf(cookie, Equals))

RECURSIVE readSegments(_, _)
readSegments(lastCookies, segs) ==
  IF segs = << >> THEN lastCookies
  ELSE readSegments(readSegment(lastCookies, Head(segs)), Tail(segs))

\* the map _readCookies builds from currentCookieString past the early return
parseCookieString(currentCookieString) ==
  readSegments(EmptyObject, split(currentCookieString, Separator))

(***************************************************************************)
(* Dates: new Date(text) and Date.prototype.toUTCString, on the days the   *)
(* model uses (days since the epoch)                                       *)
(***************************************************************************)
EpochText ==
  S(<< "T", "h", "u", ",", " ", "0", "1", " ", "J", "a", "n", " ", "1", "9",
        "7", "0", " ", "0", "0", ":", "0", "0", ":", "0", "0", " ", "G", "M",
        "T" >>)

DateTable ==
  << << 0, EpochText >>,
     << 10957,
        S(<< "S", "a", "t", ",", " ", "0", "1", " ", "J", "a", "n", " ", "2", "0",
        "0", "0", " ", "0", "0", ":", "0", "0", ":", "0", "0", " ", "G", "M",
        "T" >>) >>,
     << 47482,
        S(<< "F", "r", "i", ",", " ", "0", "1", " ", "J", "a", "n", " ", "2", "1",
        "0", "0", " ", "0", "0", ":", "0", "0", ":", "0", "0", " ", "G", "M",
        "T" >>) >> >>

InvalidDateText == S(<< "I", "n", "v", "a", "l", "i", "d", " ", "D", "a", "t", "e" >>)

\* new Date(text): the Date of the day the text names, else an invalid Date
newDate(text) ==
  IF \E i \in 1..Len(DateTable) : DateTable[i][2] = text
  THEN Date(DateTable[CHOOSE i \in 1..Len(DateTable) : DateTable[i][2] = text][1])
  ELSE Date(-1)

toUTCString(date) ==
  IF \E i \in 1..Len(DateTable) : DateTable[i][1] = date[2]
  THEN DateTable[CHOOSE i \in 1..Len(DateTable) : DateTable[i][1] = date[2]][2]
  ELSE InvalidDateText

(***************************************************************************)
(* CookieService._buildCookieString, lines 166-194                         *)
(***************************************************************************)
PathSegment == S(<< ";", "p", "a", "t", "h", "=" >>)

ExpiresSegment == S(<< ";", "e", "x", "p", "i", "r", "e", "s", "=" >>)

DomainSegment == S(<< ";", "d", "o", "m", "a", "i", "n", "=" >>)

SecureSegment == S(<< ";", "s", "e", "c", "u", "r", "e" >>)

HttpOnlySegment == S(<< ";", "H", "t", "t", "p", "O", "n", "l", "y" >>)

SameSiteSegment == S(<< ";", "s", "a", "m", "e", "S", "i", "t", "e", "=" >>)

\* lines 173-175
toDate(expires) == IF isString(expires) THEN newDate(expires) ELSE expires

\* lines 176-183, with expires as lines 168-175 leave it
serialize(opts, name, value, expires) ==
  encodeURIComponent(name) \o Equals
  \o (IF Truthy(opts["storeUnencoded"]) THEN value ELSE encodeURIComponent(value))
  \o (IF Truthy(opts["path"]) THEN PathSegment \o opts["path"] ELSE << >>)
  \o (IF Truthy(expires) THEN ExpiresSegment \o toUTCString(expires) ELSE << >>)
  \o (IF Truthy(opts["domain"]) THEN DomainSegment \o opts["domain"] ELSE << >>)
  \o (IF Truthy(opts["secure"]) THEN SecureSegment ELSE << >>)
  \o (IF Truthy(opts["httpOnly"]) THEN HttpOnlySegment ELSE << >>)
  \o (IF Truthy(opts["sameSite"]) THEN SameSiteSegment \o opts["sameSite"] ELSE << >>)

\* lines 168-172 with the expiration of the options kept on deletion
buildMergedKeepExpires(opts, name, value) ==
  IF isBlank(value) THEN serialize(opts, name, << >>, toDate(opts["expires"]))
  ELSE serialize(opts, name, value, toDate(opts["expires"]))

\* lines 168-172 on the merged options
buildMerged(opts, name, value) ==
  IF isBlank(value) THEN serialize(opts, name, << >>, toDate(EpochText))
  ELSE serialize(opts, name, value, toDate(opts["expires"]))

\* line 190: the size a cookie may have
MaxCookieLength == 4096

\* lines 189-192 with the terminator not counted
warningOfLength(name, str) ==
  IF Len(str) > MaxCookieLength THEN << << name, Len(str) + 1 >> >> ELSE << >>

\* lines 189-192: what console.log receives while the string str is built
\* for the cookie name: the name and the cookieLength of the message
warning(name, str) ==
  IF Len(str) + 1 > MaxCookieLength THEN << << name, Len(str) + 1 >> >> ELSE << >>

\* the messages of the strings strs built for the cookies names, in order
RECURSIVE warnings(_, _)
warnings(names, strs) ==
  IF names = << >> THEN << >>
  ELSE warning(Head(names), Head(strs)) \o warnings(Tail(names), Tail(strs))

\* line 167 with the call site's options left out
buildCookieStringOfDefaults(defaults, name, value, options) ==
  buildMerged(defaults, name, value)

\* lines 166-167: the string built over the defaults (this.options)
buildCookieString(defaults, name, value, options) ==
  buildMerged(mergeOptions(defaults, options), name, value)

(***************************************************************************)
(* The host's jar behind document.cookie.  The jar holds one entry per     *)
(* cookie name and path: the text name=value the getter lists, and the     *)
(* path it was stored under.  Entries with longer paths are listed first.  *)
(* The document lies under /a, which is the path of a cookie written       *)
(* without one, so cookies stored under / and under /a are all listed.     *)
(***************************************************************************)
RECURSIVE Trim(_)
Trim(s) ==
  IF s = << >> THEN s
  ELSE IF Head(s) = 32 THEN Trim(Tail(s))
  ELSE IF s[Len(s)] = 32 THEN Trim(SubSeq(s, 1, Len(s) - 1))
  ELSE s

HostDefaultPath == S(<< "/", "a" >>)

Semicolon == S(<< ";" >>)

PathKey == S(<< "p", "a", "t", "h", "=" >>)

ExpiresKey == S(<< "e", "x", "p", "i", "r", "e", "s", "=" >>)

Slash == S(<< "/" >>)

\* the text before the first "=", the whole text when there is none
BeforeEquals(pair, i) == IF i < 0 THEN << >> ELSE substring(pair, 0, i)

\* the name the host files the text name=value under
HostName(pair) == BeforeEquals(pair, indexOf(pair, Equals))

\* the value of the last of the attributes parts[2..n] that starts with
\* key, or undefined
RECURSIVE AttrValue(_, _, _)
AttrValueOf(parts, key, n, a) ==
  IF StartsWith(a, key) THEN substring(a, Len(key), Len(a))
  ELSE AttrValue(parts, key, n - 1)

AttrValue(parts, key, n) ==
  IF n < 2 THEN undefined ELSE AttrValueOf(parts, key, n, Trim(parts[n]))

\* the path a cookie is stored under, given its path attribute p
HostPath(p) == IF p # undefined /\ StartsWith(p, Slash) THEN p ELSE HostDefaultPath

\* the day the expires attribute e names is not after today (day 20760)
DayPassed(d) == d[2] >= 0 /\ d[2] <= 20760

HostExpired(e) == e # undefined /\ DayPassed(newDate(e))

\* entry e goes before the entries with shorter paths and after the others
RECURSIVE HostInsert(_, _)
HostInsert(j, e) ==
  IF j = << >> THEN << e >>
  ELSE IF Len(Head(j)[2]) < Len(e[2]) THEN << e >> \o j
  ELSE << Head(j) >> \o HostInsert(Tail(j), e)

\* entries are pairs << text, path >>
SameCookie(e, name, path) == HostName(e[1]) = name /\ e[2] = path

HostStore(j, pair, name, path, gone) ==
  IF pair = << >> \/ pair = Equals THEN j
  ELSE IF gone THEN SelectSeq(j, LAMBDA e : ~SameCookie(e, name, path))
  ELSE IF \E i \in 1..Len(j) : SameCookie(j[i], name, path)
    THEN [i \in 1..Len(j) |->
            IF SameCookie(j[i], name, path) THEN << pair, path >> ELSE j[i]]
  ELSE HostInsert(j, << pair, path >>)

HostSetParts(j, parts, pair) ==
  HostStore(j, pair, HostName(pair), HostPath(AttrValue(parts, PathKey, Len(parts))),
            HostExpired(AttrValue(parts, ExpiresKey, Len(parts))))

HostSetSplit(j, parts) == HostSetParts(j, parts, Trim(parts[1]))

\* the jar after document.cookie = val
documentCookieSet(j, val) == HostSetSplit(j, split(val, Semicolon))

\* document.cookie
documentCookie(j) == join([i \in 1..Len(j) |-> j[i][1]], Separator)

(***************************************************************************)
(* State                                                                   *)
(***************************************************************************)
VARIABLES
  jar,               \* the host's cookie jar
  options,           \* CookieService.options, the defaults
  lastCookies,       \* CookieService._lastCookies: the id of a heap object
  lastCookieString,  \* CookieService._lastCookieString
  heap,              \* the objects the service refers to, by id
  op,                \* the last call: its name and arguments
  ret,               \* what the last call returned
  reparsed,          \* whether the last call went past the early return of
                     \* _readCookies (line 140)
  written,           \* the strings the last call assigned to document.cookie
  logged,            \* what the last call passed to console.log (line 191)
  held               \* a reference to a map that a caller of getAll kept, or
                     \* undefined

vars ==
  << jar, options, lastCookies, lastCookieString, heap, op, ret, reparsed, written,
     logged, held >>

\* bounds of the model: the cookies the jar holds at most, and the
\* assignments that made the jar a service is constructed over
MaxJar == 2

MaxSegments == 3

Call(name, key, value, opts) ==
  [name |-> name, key |-> key, value |-> value, options |-> opts]

\* CookieService.cookieString (getter), lines 30-32
cookieString == documentCookie(jar)

\* the id of a new object: one that neither the service nor the caller
\* refers to
FreshId == CHOOSE id \in 1..3 : id # lastCookies /\ ObjRef(id) # held

\* the objects that stay alive when the service lets go of its map
Kept == IF held = undefined THEN << >> ELSE held[2] :> heap[held[2]]

\* lines 143-159 with the map emptied and filled in place
rereadInPlace(currentCookieString, id) ==
  [lastCookieString |-> currentCookieString, lastCookies |-> lastCookies,
   heap |-> (lastCookies :> parseCookieString(currentCookieString)) @@ Kept,
   reparsed |-> TRUE]

\* lines 143-159: the cache pair and the heap past the early return
reread(currentCookieString, id) ==
  [lastCookieString |-> currentCookieString, lastCookies |-> id,
   heap |-> (id :> parseCookieString(currentCookieString)) @@ Kept,
   reparsed |-> TRUE]

\* lines 138-141 with the cache hit decided by the length of the raw string
readCookiesByLength(currentCookieString) ==
  IF Len(currentCookieString) = Len(lastCookieString)
  THEN [lastCookieString |-> lastCookieString, lastCookies |-> lastCookies,
        heap |-> heap, reparsed |-> FALSE]
  ELSE reread(currentCookieString, FreshId)

\* lines 138-141 without the early return
readCookiesAlways(currentCookieString) == reread(currentCookieString, FreshId)

\* lines 138-141
readCookiesOf(currentCookieString) ==
  IF currentCookieString = lastCookieString
  THEN [lastCookieString |-> lastCookieString, lastCookies |-> lastCookies,
        heap |-> heap, reparsed |-> FALSE]
  ELSE reread(currentCookieString, FreshId)

\* CookieService._readCookies, lines 135-160: the cache pair and the heap
\* after the call; the object returned is heap[lastCookies]
readCookies == readCookiesOf(cookieString)

\* the service's fields after the read r
Read(r) ==
  /\ lastCookieString' = r.lastCookieString
  /\ lastCookies' = r.lastCookies
  /\ heap' = r.heap
  /\ reparsed' = r.reparsed

getAllOf(r) ==
  /\ Read(r)
  /\ ret' = ObjRef(r.lastCookies)
  /\ op' = Call("getAll", undefined, undefined, << >>)
  /\ written' = << >>
  /\ logged' = << >>
  /\ UNCHANGED << jar, options, held >>

\* CookieService.getAll, lines 77-79
getAll == getAllOf(readCookies)

getOf(r, key) ==
  /\ Read(r)
  /\ ret' = GetProp(r.heap[r.lastCookies], key)
  /\ op' = Call("get", key, undefined, << >>)
  /\ written' = << >>
  /\ logged' = << >>
  /\ UNCHANGED << jar, options, held >>

\* CookieService.get, lines 51-53
get(key) == getOf(readCookies, key)

\* line 66
parseTruthy(value) == IF Truthy(value) THEN safeJsonParse(value) ELSE value

getObjectOf(r, key) ==
  /\ Read(r)
  /\ ret' = parseTruthy(GetProp(r.heap[r.lastCookies], key))
  /\ op' = Call("getObject", key, undefined, << >>)
  /\ written' = << >>
  /\ logged' = << >>
  /\ UNCHANGED << jar, options, held >>

\* CookieService.getObject, lines 64-67
getObject(key) == getObjectOf(readCookies, key)

\* the caller of getAll keeps the reference it got
keep ==
  /\ op.name = "getAll"
  /\ held # ret
  /\ held' = ret
  /\ UNCHANGED << jar, options, lastCookies, lastCookieString, heap, op, ret, reparsed,
                  written, logged >>

\* CookieService._writeCookie, lines 162-164: the string it assigns to
\* the cookieString setter
writeCookie(name, value, opts) == buildCookieString(options, name, value, opts)

\* a call that assigns strs to document.cookie, in order, and reads nothing
RECURSIVE documentCookieSetAll(_, _)
documentCookieSetAll(j, strs) ==
  IF strs = << >> THEN j
  ELSE documentCookieSetAll(documentCookieSet(j, Head(strs)), Tail(strs))

Assign(strs) ==
  /\ jar' = documentCookieSetAll(jar, strs)
  /\ Len(jar') <= MaxJar
  /\ written' = strs

\* the diagnostics of a call that built written' for the cookies names
Log(names) == logged' = warnings(names, written')

\* lines 91-93 with the cache refreshed after the write
putOfRefreshing(c, value) ==
  /\ Assign(<< writeCookie(c.key, value, c.options) >>)
  /\ Log(<< c.key >>)
  /\ op' = c
  /\ ret' = undefined
  /\ reparsed' = FALSE
  /\ lastCookieString' = documentCookie(jar')
  /\ heap' = (lastCookies :> parseCookieString(documentCookie(jar'))) @@ Kept
  /\ UNCHANGED << options, lastCookies, held >>

\* lines 91-93 with the merged options kept as the defaults
putOfAdopting(c, value) ==
  /\ Assign(<< writeCookie(c.key, value, c.options) >>)
  /\ Log(<< c.key >>)
  /\ op' = c
  /\ ret' = undefined
  /\ reparsed' = FALSE
  /\ options' = mergeOptions(options, c.options)
  /\ UNCHANGED << lastCookies, lastCookieString, heap, held >>

\* lines 91-93: put writing value, on behalf of the call c
putOf(c, value) ==
  /\ Assign(<< writeCookie(c.key, value, c.options) >>)
  /\ Log(<< c.key >>)
  /\ op' = c
  /\ ret' = undefined
  /\ reparsed' = FALSE
  /\ UNCHANGED << options, lastCookies, lastCookieString, heap, held >>

\* CookieService.put, lines 91-93
put(key, value, opts) == putOf(Call("put", key, value, opts), value)

\* CookieService.putObject, lines 105-107
putObject(key, value, opts) ==
  putOf(Call("putObject", key, value, opts), stringify(value))

\* CookieService.remove, lines 118-120
remove(key, opts) ==
  /\ Assign(<< writeCookie(key, undefined, opts) >>)
  /\ Log(<< key >>)
  /\ op' = Call("remove", key, undefined, opts)
  /\ ret' = undefined
  /\ reparsed' = FALSE
  /\ UNCHANGED << options, lastCookies, lastCookieString, heap, held >>

\* lines 130-132 with the last key left out
removeKeysButLast(keys, opts) ==
  Assign([i \in 1..(Len(keys) - 1) |-> writeCookie(keys[i], undefined, opts)])

\* lines 130-132: one remove per key of the snapshot
removeKeys(keys, opts) ==
  Assign([i \in 1..Len(keys) |-> writeCookie(keys[i], undefined, opts)])

removeAllOf(r, opts) ==
  /\ Read(r)
  /\ removeKeys(Keys(r.heap[r.lastCookies]), opts)
  /\ Log(SubSeq(Keys(r.heap[r.lastCookies]), 1, Len(written')))
  /\ op' = Call("removeAll", undefined, undefined, opts)
  /\ ret' = undefined
  /\ UNCHANGED << options, held >>

\* CookieService.removeAll, lines 128-133: getAll, then one remove per key
removeAll(opts) == removeAllOf(readCookies, opts)

\* removeAll in steps, for the writes of other code that fall between them.
\* Line 129: the snapshot
removeAllStart(opts) ==
  /\ Read(readCookies)
  /\ op' = Call("removeAll", undefined, undefined, opts)
  /\ ret' = undefined
  /\ written' = << >>
  /\ logged' = << >>
  /\ UNCHANGED << jar, options, held >>

\* line 130 with the keys read from the jar as it is at each turn
snapshotKeysOfJar == Keys(parseCookieString(cookieString))

\* line 130: the keys of the snapshot
snapshotKeys == Keys(heap[lastCookies])

\* a removeAll has keys left to remove
Running == op.name = "removeAll" /\ Len(written) < Len(snapshotKeys)

\* lines 130-131: the key of the next turn of forEach
nextKey == snapshotKeys[Len(written) + 1]

\* line 131: one turn of forEach, the remove of the next key
removeAllStep ==
  /\ Running
  /\ jar' = documentCookieSet(jar, writeCookie(nextKey, undefined, op.options))
  /\ Len(jar') <= MaxJar
  /\ written' = Append(written, writeCookie(nextKey, undefined, op.options))
  /\ logged' = logged \o warning(nextKey, writeCookie(nextKey, undefined, op.options))
  /\ UNCHANGED << options, lastCookies, lastCookieString, heap, op, ret, reparsed, held >>

\* other code assigns val to document.cookie while the service is in a call
foreign(val) ==
  /\ jar' = documentCookieSet(jar, val)
  /\ jar' # jar
  /\ Len(jar') <= MaxJar
  /\ UNCHANGED << options, lastCookies, lastCookieString, heap, op, ret, reparsed,
                  written, logged, held >>

\* other code of the document, or the host, assigns val to document.cookie
external(val) ==
  /\ jar' = documentCookieSet(jar, val)
  /\ jar' # jar
  /\ Len(jar') <= MaxJar
  /\ op' = Call("external", undefined, val, << >>)
  /\ ret' = undefined
  /\ reparsed' = FALSE
  /\ written' = << >>
  /\ logged' = << >>
  /\ UNCHANGED << options, lastCookies, lastCookieString, heap, held >>

\* the service as constructed (lines 25-26 and 38-40) over the jar j with
\* the defaults d
Constructed(j, d) ==
  /\ jar = j
  /\ options = d
  /\ lastCookies = 1
  /\ lastCookieString = << >>
  /\ heap = 1 :> EmptyObject
  /\ op = Call("new", undefined, undefined, << >>)
  /\ ret = undefined
  /\ reparsed = FALSE
  /\ written = << >>
  /\ logged = << >>
  /\ held = undefined

(***************************************************************************)
(* Inputs                                                                  *)
(***************************************************************************)
NameA == S(<< "a" >>)

ValueOf == S(<< "v", "a", "l", "u", "e", "O", "f" >>)

\* a value with the reserved characters ; = space % and a non-ASCII one
Reserved == S(<< "x", ";", "=", " ", "%" >>) \o NonAscii

Root == Slash

\* the defaults of an options provider configured with the path /
RootDefaults == [NoOptions EXCEPT !["path"] = Root]

UnderA == [NoOptions EXCEPT !["path"] = HostDefaultPath]

(***************************************************************************)
(* Spec: the service in use, with other code writing to the jar            *)
(***************************************************************************)
Names == { NameA, ValueOf }

Values == { Reserved }

CallOptions == { << >>, << UnderA >> }

\* assignments to document.cookie by other code: a cookie a under the
\* document's path, a cookie whose name is not percent-encoded, and a
\* second cookie b under the document's path
ExternalWrites ==
  { S(<< "a", "=", "3" >>),
    S(<< "b", " ", "c", "=", "2" >>),
    S(<< "b", "=", "2" >>) }

Init == Constructed(<< >>, RootDefaults)

Next ==
  \/ getAll
  \/ \E key \in Names : get(key)
  \/ \E key \in Names, value \in Values, opts \in CallOptions : put(key, value, opts)
  \/ \E key \in Names, opts \in CallOptions : remove(key, opts)
  \/ \E opts \in CallOptions : removeAll(opts)
  \/ \E val \in ExternalWrites : external(val)

Spec == Init /\ [][Next]_vars

(***************************************************************************)
(* SpecRead: a service constructed over a jar that other code filled, and  *)
(* read                                                                    *)
(***************************************************************************)
NameBC == S(<< "b", " ", "c" >>)

NameC == S(<< "c" >>)

\* assignments that fill the jar: a under the document's path, with a value
\* and with an empty one, and under /; a percent-encoded name; a nameless
\* cookie; a text with no "="; a name Object.prototype has a member for,
\* under both paths
RawWrites ==
  { S(<< "a", "=", "1" >>), S(<< "a", "=" >>), S(<< "a", "=", "3", ";", "p", "a", "t", "h", "=", "/" >>), S(<< "b", "%", "2", "0", "c", "=", "%", "4", "1" >>), S(<< "=", "v", ";", "p", "a", "t", "h", "=", "/" >>), S(<< "j", "u", "n", "k" >>),
    S(<< "v", "a", "l", "u", "e", "O", "f", "=", "1" >>), S(<< "v", "a", "l", "u", "e", "O", "f", "=", "2", ";", "p", "a", "t", "h", "=", "/" >>) }

\* the sequences of at most n assignments
WriteSeqs(n) == UNION { [1..m -> RawWrites] : m \in 0..n }

ReadKeys == { NameA, NameBC, NameC, ValueOf }

InitRead ==
  \E ws \in WriteSeqs(MaxSegments) :
    Constructed(documentCookieSetAll(<< >>, ws), RootDefaults)

NextRead ==
  \/ getAll
  \/ \E key \in ReadKeys : get(key)

SpecRead == InitRead /\ [][NextRead]_vars

(***************************************************************************)
(* SpecWrite: services constructed with several defaults, writing          *)
(***************************************************************************)
Year2000Text == DateTable[2][2]

Year2100Text == DateTable[3][2]

\* defaults with every key set
FullDefaults ==
  [path |-> Root, domain |-> S(<< "d", ".", "i", "o" >>), expires |-> Date(47482), secure |-> true,
   httpOnly |-> true, sameSite |-> S(<< "l", "a", "x" >>), storeUnencoded |-> true]

Providers == { NoOptions, RootDefaults, FullDefaults }

WriteValues == { Reserved, << >> }

\* the options argument: not passed; passed with no key set; a path and a
\* domain; an expiration as a string; an expiration as a Date in the past;
\* the flags set to false; the flags set and a sameSite policy
WriteOptions ==
  { << >>,
    << NoOptions >>,
    << [NoOptions EXCEPT !["path"] = HostDefaultPath, !["domain"] = S(<< "e", ".", "i", "o" >>)] >>,
    << [NoOptions EXCEPT !["expires"] = Year2100Text] >>,
    << [NoOptions EXCEPT !["expires"] = Date(10957)] >>,
    << [NoOptions EXCEPT !["expires"] = << >>] >>,
    << [NoOptions EXCEPT !["secure"] = false, !["httpOnly"] = false,
                         !["storeUnencoded"] = false] >>,
    << [NoOptions EXCEPT !["secure"] = true, !["httpOnly"] = true,
                         !["sameSite"] = S(<< "s", "t", "r", "i", "c", "t" >>), !["storeUnencoded"] = true] >> }

InitWrite == \E d \in Providers : Constructed(<< >>, d)

NextWrite ==
  \/ \E value \in WriteValues, opts \in WriteOptions : put(NameBC, value, opts)
  \/ \E opts \in WriteOptions : remove(NameBC, opts)
  \/ \E opts \in WriteOptions : removeAll(opts)

SpecWrite == InitWrite /\ [][NextWrite]_vars

(***************************************************************************)
(* SpecSize: writes of values around the size a cookie may have            *)
(***************************************************************************)
\* the character c, n times
Repeat(c, n) == [i \in 1..n |-> c]

\* with the name a and the path /, values of 4086 characters and more give
\* strings of 4095 characters and more; a "%" is written as three characters
SizeValues ==
  { Repeat(120, 1), Repeat(120, 4086), Repeat(120, 4087), Repeat(120, 4088),
    Repeat(37, 1362), Repeat(37, 1363) }

Unencoded == [NoOptions EXCEPT !["storeUnencoded"] = true]

SizeOptions == { << >>, << UnderA >>, << Unencoded >> }

NextSize ==
  \/ \E value \in SizeValues, opts \in SizeOptions : put(NameA, value, opts)
  \/ \E opts \in SizeOptions : remove(NameA, opts)

SpecSize == Init /\ [][NextSize]_vars

(***************************************************************************)
(* SpecObject: values stored and read as JSON                              *)
(***************************************************************************)
\* { x: [-12, "a;b"] }
Nested == Obj(<< << S(<< "x" >>), Arr(<< Num(-12), S(<< "a", ";", "b" >>) >>) >> >>)

\* an object with an array, a number and a string in it; the empty string;
\* false
ObjectValues == { Nested, << >>, false }

\* the name and the value of the putObject calls
ObjectPuts == { << NameA, v >> : v \in ObjectValues } \cup { << ValueOf, false >> }

\* a text that is no JSON text
BrokenJson == S(<< "{", "x" >>)

\* other code stores a with an empty value under the document's path
EmptyA == S(<< "a", "=" >>)

NextObject ==
  \/ getAll
  \/ \E key \in Names : get(key)
  \/ \E key \in Names : getObject(key)
  \/ put(NameA, BrokenJson, << >>)
  \/ \E kv \in ObjectPuts : putObject(kv[1], kv[2], << >>)
  \/ \E key \in Names : remove(key, << >>)
  \/ external(EmptyA)

SpecObject == Init /\ [][NextObject]_vars

(***************************************************************************)
(* SpecRemoveAll: removeAll turn by turn, other code writing in between     *)
(***************************************************************************)
\* what other code assigns: a and b under the document's path, a under /,
\* c under the document's path; one text per cookie, so that an assignment
\* adds a cookie or changes nothing
ForeignWrites == { S(<< "a", "=", "1" >>), S(<< "b", "=", "2" >>), S(<< "a", "=", "2", ";", "p", "a", "t", "h", "=", "/" >>), S(<< "c", "=", "4" >>) }

RemoveAllOptions == { << >>, << UnderA >> }

NextRemoveAll ==
  \/ \E opts \in RemoveAllOptions : ~Running /\ removeAllStart(opts)
  \/ removeAllStep
  \/ \E val \in ForeignWrites : foreign(val)

SpecRemoveAll == Init /\ [][NextRemoveAll]_vars

(***************************************************************************)
(* SpecCache: the generations of the cached map, a caller holding one      *)
(***************************************************************************)
NextCache ==
  \/ getAll
  \/ keep
  \/ get(NameA)
  \/ \E value \in WriteValues : put(NameA, value, << >>)
  \/ remove(NameA, << >>)
  \/ removeAll(<< >>)
  \/ \E val \in ExternalWrites : external(val)

SpecCache == Init /\ [][NextCache]_vars

(***************************************************************************)
(* SpecDefaults: reads and writes over each provider's defaults            *)
(***************************************************************************)
\* no options; a path and a domain; every flag, sameSite and raw storage
DefaultsOptions ==
  { << >>,
    << [NoOptions EXCEPT !["path"] = HostDefaultPath, !["domain"] = S(<< "e", ".", "i", "o" >>)] >>,
    << [NoOptions EXCEPT !["secure"] = true, !["httpOnly"] = true,
                         !["sameSite"] = S(<< "s", "t", "r", "i", "c", "t" >>), !["storeUnencoded"] = true] >> }

NextDefaults ==
  \/ getAll
  \/ get(NameBC)
  \/ getObject(NameBC)
  \/ \E opts \in DefaultsOptions : put(NameBC, Reserved, opts)
  \/ \E opts \in DefaultsOptions : putObject(NameBC, Nested, opts)
  \/ \E opts \in DefaultsOptions : remove(NameBC, opts)
  \/ \E opts \in DefaultsOptions : removeAll(opts)

SpecDefaults == InitWrite /\ [][NextDefaults]_vars

(***************************************************************************)
(* Claims                                                                  *)
(***************************************************************************)
ReadNames == { "get", "getAll" }

\* what the call c returns from the map cookies
Returned(c, cookies, id) ==
  IF c.name = "getAll" THEN ObjRef(id) ELSE GetProp(cookies, c.key)

\* C1: no stale read.  Every get and getAll returns from the parse of the
\* jar string as it is at that read, whatever calls and foreign writes came
\* before; the map held before the read is the one returned only when the
\* jar string equals the cached raw string.
C1_NoStaleRead ==
  [][op'.name \in ReadNames =>
       /\ heap'[lastCookies'] = parseCookieString(cookieString)
       /\ ret' = Returned(op', parseCookieString(cookieString), lastCookies')
       /\ (lastCookies' = lastCookies => cookieString = lastCookieString)]_vars

\* a read that follows a change of a non-empty jar: the cache held another
\* string and the jar was parsed again
C1_Witness ==
  /\ op.name \in ReadNames
  /\ reparsed
  /\ lastCookies = 1
  /\ Len(jar) = 2

\* a second read of an unchanged, non-empty jar
C2_Witness ==
  /\ op.name = "getAll"
  /\ ~reparsed
  /\ jar # << >>
  /\ ret = ObjRef(lastCookies)

\* C2: cache hit.  A getAll that directly follows a getAll (so with no
\* change of the jar string in between) returns the identical map instance
\* and leaves the cache pair and the map as they were: nothing is parsed.
C2_CacheHit ==
  [][(op.name = "getAll" /\ op'.name = "getAll") =>
       /\ ret' = ret
       /\ ~reparsed'
       /\ << lastCookies, lastCookieString, heap >>'
            = << lastCookies, lastCookieString, heap >>]_vars

\* the jar lists the cookie the string str asked for
Accepted(str) ==
  \E i \in 1..Len(jar) : jar[i][1] = Trim(split(str, Semicolon)[1])

\* C3: write/read round trip.  put(name, value) directly followed by
\* get(name), the host having stored the cookie, returns value.
C3_RoundTrip ==
  [][(op.name = "put" /\ Accepted(written[1])
        /\ op'.name = "get" /\ op'.key = op.key) => ret' = op.value]_vars

\* C4: remove(name) directly followed by get(name) yields absent.
C4_RemoveThenGet ==
  [][(op.name = "remove" /\ op'.name = "get" /\ op'.key = op.key) =>
       ret' = undefined]_vars

\* C5 as claimed: removeAll() followed by getAll() yields an empty map,
\* whatever the jar held.  The map is the one the next read parses from the
\* jar removeAll leaves (C1).
C5_RemoveAllEmpties ==
  [][op'.name = "removeAll" =>
       parseCookieString(documentCookie(jar')) = EmptyObject]_vars

\* the path the host files a cookie written with the merged options under
MergedPath(opts) ==
  HostPath(IF Truthy(mergeOptions(options, opts)["path"])
           THEN mergeOptions(options, opts)["path"] ELSE undefined)

\* the cookie e is stored as a put with the options opts would store it:
\* under the merged path and under a percent-encoded name
Addressed(e, opts) ==
  /\ e[2] = MergedPath(opts)
  /\ HostName(e[1]) = encodeURIComponent(safeDecodeURIComponent(HostName(e[1])))

\* C5, amended: removeAll(options) followed by getAll() yields an empty map
\* when every cookie of the jar is stored under the path of the merged
\* options and under the percent-encoding of its decoded name.
C5_RemoveAllAddressed ==
  [][(op'.name = "removeAll" /\ \A i \in 1..Len(jar) : Addressed(jar[i], op'.options))
       => parseCookieString(documentCookie(jar')) = EmptyObject]_vars

\* a removeAll that removed two cookies and left the jar empty
C5_Witness ==
  /\ op.name = "removeAll"
  /\ Len(written) = 2
  /\ jar = << >>

\* the segments of the jar string
Segments == split(cookieString, Separator)

\* a segment with a non-empty name before its first "="
WellFormed(seg) == indexOf(seg, Equals) > 0

SegName(seg) == safeDecodeURIComponent(substring(seg, 0, indexOf(seg, Equals)))

SegValue(seg) ==
  safeDecodeURIComponent(substring(seg, indexOf(seg, Equals) + 1, Len(seg)))

Named(segs, i, name) == WellFormed(segs[i]) /\ SegName(segs[i]) = name

\* the position of the first segment with the name
First(segs, name) ==
  CHOOSE i \in 1..Len(segs) :
    Named(segs, i, name) /\ \A j \in 1..(i - 1) : ~Named(segs, j, name)

\* the names several segments have
Repeated(segs) ==
  { SegName(segs[i]) :
      i \in { i \in 1..Len(segs) :
                /\ WellFormed(segs[i])
                /\ \E j \in 1..Len(segs) :
                     j # i /\ Named(segs, j, SegName(segs[i])) } }

\* C6: duplicate names.  For a name several segments of the jar string
\* have, the map getAll returns holds the value of the first of them, and
\* get returns it.
C6_FirstWins ==
  \A name \in Repeated(Segments) :
    /\ op.name = "getAll" =>
         GetProp(heap[lastCookies], name) = SegValue(Segments[First(Segments, name)])
    /\ (op.name = "get" /\ op.key = name) =>
         ret = SegValue(Segments[First(Segments, name)])

\* C7: malformed segments.  The map a read returns is the map of the jar
\* string with the segments that have no "=" or no name left out: they
\* add no entry and keep no other segment from being parsed.
C7_MalformedIgnored ==
  op.name \in ReadNames =>
    heap[lastCookies] = parseCookieString(join(SelectSeq(Segments, WellFormed), Separator))

\* a getAll over a jar string that starts with a text without "=", holds a
\* nameless segment too, and yields a cookie
C7_Witness ==
  /\ op.name = "getAll"
  /\ indexOf(Segments[1], Equals) < 0
  /\ \E i \in 1..Len(Segments) : indexOf(Segments[i], Equals) = 0
  /\ heap[lastCookies] # EmptyObject

DecodedNames ==
  { SegName(Segments[i]) : i \in { i \in 1..Len(Segments) : WellFormed(Segments[i]) } }

KeySet(obj) == { obj[i][1] : i \in 1..Len(obj) }

\* C8: key set exactness.  The keys of the map getAll returns are exactly
\* the decoded names of the well-formed segments of the jar string; get
\* returns a string for each of these names and absent for every other.
C8_KeySetExact ==
  /\ op.name = "getAll" => KeySet(heap[lastCookies]) = DecodedNames
  /\ op.name = "get" =>
       IF op.key \in DecodedNames THEN isString(ret) ELSE ret = undefined

\* the value in effect for the option key k at the call c: the call site's
\* when the key is set there, the construction-time default otherwise
Effective(c, k) ==
  IF c.options # << >> /\ c.options[1][k] \notin { undefined, null }
  THEN c.options[1][k]
  ELSE options[k]

EffectiveOptions(c) == [k \in OptionKeys |-> Effective(c, k)]

\* C9: options merge.  Every string a put, remove or removeAll assigns to
\* the jar is the one built from the options in effect: per key the call
\* site's value when set there, else the default; the defaults alone when
\* no options are passed.
C9_OptionsMerge ==
  /\ op.name \in { "put", "remove" } =>
       written = << buildMerged(EffectiveOptions(op), op.key, op.value) >>
  /\ op.name = "removeAll" =>
       written = [i \in 1..Len(heap[lastCookies]) |->
                    buildMerged(EffectiveOptions(op), Keys(heap[lastCookies])[i], undefined)]

\* a put over defaults that set every key, with a path and a domain set at
\* the call site
C9_Witness ==
  /\ op.name = "put"
  /\ options = FullDefaults
  /\ op.options # << >>
  /\ op.options[1]["path"] = HostDefaultPath
  /\ op.options[1]["secure"] = undefined
  /\ written # << >>

\* a write of an absent or empty value
Deletes(c) ==
  \/ c.name \in { "remove", "removeAll" }
  \/ c.name = "put" /\ c.value \in { undefined, null, << >> }

AttributeIf(present, text) == IF present THEN << text >> ELSE << >>

\* the attributes of a deleting string at the call c, in the order written
DeletionAttributes(c) ==
  AttributeIf(Truthy(Effective(c, "path")), PathKey \o Effective(c, "path"))
  \o << ExpiresKey \o EpochText >>
  \o AttributeIf(Truthy(Effective(c, "domain")),
                 Tail(DomainSegment) \o Effective(c, "domain"))
  \o AttributeIf(Truthy(Effective(c, "secure")), Tail(SecureSegment))
  \o AttributeIf(Truthy(Effective(c, "httpOnly")), Tail(HttpOnlySegment))
  \o AttributeIf(Truthy(Effective(c, "sameSite")),
                 Tail(SameSiteSegment) \o Effective(c, "sameSite"))

\* the string str has a name, an empty value and the attributes attrs
DeletionString(parts, attrs) ==
  /\ indexOf(parts[1], Equals) = Len(parts[1]) - 1
  /\ Len(parts[1]) > 1
  /\ Tail(parts) = attrs

\* C10: deletion encoding.  Every string assigned to the jar by a write of
\* an absent or empty value has an empty value and the epoch start as its
\* one expiration, whatever expiration the options in effect name, and the
\* other attributes of the options in effect.
C10_DeletionEncoding ==
  Deletes(op) =>
    \A i \in 1..Len(written) :
      DeletionString(split(written[i], Semicolon), DeletionAttributes(op))

\* a put of the empty string with an expiration set at the call site, over
\* defaults that set every key
C10_Witness ==
  /\ op.name = "put"
  /\ op.value = << >>
  /\ options = FullDefaults
  /\ op.options # << >>
  /\ op.options[1]["expires"] = Year2100Text
  /\ written # << >>

\* C11: oversize is non-fatal.  A put or remove logs the diagnostic exactly
\* when the length of the string it built, plus one, exceeds 4096; with or
\* without it the call ends normally, and the jar is assigned the string
\* built from the name, the value and the options, whole.
C11_OversizeNonFatal ==
  [][op'.name \in { "put", "remove" } =>
       /\ Len(logged') <= 1
       /\ Len(logged') = 1 <=> Len(written'[1]) + 1 > 4096
       /\ written' = << buildCookieString(options, op'.key, op'.value, op'.options) >>
       /\ jar' = documentCookieSet(jar, written'[1])
       /\ ret' = undefined]_vars

\* a put of 4087 characters: the string has 4096, the diagnostic is logged
\* and the jar lists the whole value
C11_Witness ==
  /\ op.name = "put"
  /\ Len(op.value) = 4087
  /\ Len(written[1]) = 4096
  /\ logged = << << NameA, 4097 >> >>
  /\ \E i \in 1..Len(jar) : jar[i][1] = NameA \o Equals \o op.value

\* C12: object round trip.  putObject(name, v) directly followed by
\* getObject(name), the host having stored the cookie, returns a value equal
\* to v.
C12_ObjectRoundTrip ==
  [][(op.name = "putObject" /\ Accepted(written[1])
        /\ op'.name = "getObject" /\ op'.key = op.key) => ret' = op.value]_vars

\* the value the jar string holds for the name: that of the first segment
\* with the name, or undefined
StoredValue(name) ==
  IF name \in DecodedNames THEN SegValue(Segments[First(Segments, name)])
  ELSE undefined

\* C13: getObject degrades gracefully.  When the jar holds no value or the
\* empty string for the name, getObject returns just that; when it holds a
\* text that is no JSON text, getObject returns the text; it never changes
\* the jar.
C13_GetObjectGraceful ==
  [][op'.name = "getObject" =>
       /\ jar' = jar
       /\ written' = << >>
       /\ StoredValue(op'.key) \in { undefined, << >> } =>
            ret' = StoredValue(op'.key)
       /\ (StoredValue(op'.key) \notin { undefined, << >> }
             /\ JSONparse(StoredValue(op'.key)) = SyntaxError) =>
            ret' = StoredValue(op'.key)]_vars

CacheUnchanged ==
  << lastCookieString, lastCookies, heap >>' = << lastCookieString, lastCookies, heap >>

\* C16: frame of reads and writes.  get, getObject and getAll assign
\* nothing to the jar; put, putObject and remove assign one string to it and
\* leave the cached raw string and the cached map as they were.
C16_Frame ==
  [][/\ op'.name \in { "get", "getObject", "getAll" } =>
          jar' = jar /\ written' = << >>
     /\ op'.name \in { "put", "putObject", "remove" } =>
          /\ Len(written') = 1
          /\ jar' = documentCookieSet(jar, written'[1])
          /\ CacheUnchanged]_vars

\* a putObject has changed the jar and the cache still holds the string and
\* the map of the read before it
C16_Witness ==
  /\ op.name = "putObject"
  /\ lastCookieString # << >>
  /\ lastCookieString # cookieString
  /\ heap[lastCookies] = parseCookieString(lastCookieString)

\* the texts of the cookies the snapshot of the running removeAll was read
\* from
SnapshotTexts ==
  { split(lastCookieString, Separator)[i] :
      i \in 1..Len(split(lastCookieString, Separator)) }

\* the jar entries that were not in the jar when the snapshot was read
AddedSince == { i \in 1..Len(jar) : jar[i][1] \notin SnapshotTexts }

\* C14 as stated: a cookie added to the jar by other code after the snapshot
\* of a removeAll is not removed by a turn of that removeAll.
C14_AddedSurvive ==
  [][(op.name = "removeAll" /\ Len(written') > Len(written)) =>
       \A i \in AddedSince : \E j \in 1..Len(jar') : jar'[j] = jar[i]]_vars

SnapshotNames == { Keys(heap[lastCookies])[i] : i \in 1..Len(Keys(heap[lastCookies])) }

\* C14: removeAll is snapshot-based and non-atomic.  It reads the map once;
\* the strings it assigns are, in order, the deletion strings of the keys of
\* that snapshot with the given options, one assignment a turn and none for
\* another name; a cookie other code added after the snapshot under a name
\* that is not in the snapshot is still in the jar after every turn.
C14_SnapshotBased ==
  [][op'.name = "removeAll" =>
       /\ Len(written') <= Len(Keys(heap'[lastCookies']))
       /\ \A i \in 1..Len(written') :
            written'[i] =
              buildCookieString(options, Keys(heap'[lastCookies'])[i], undefined, op'.options)
       /\ (op.name = "removeAll" /\ Len(written') > Len(written)) =>
            /\ Len(written') = Len(written) + 1
            /\ << lastCookieString, lastCookies, heap >>' =
                 << lastCookieString, lastCookies, heap >>
            /\ jar' = documentCookieSet(jar, written'[Len(written')])
            /\ \A i \in AddedSince :
                 SegName(jar[i][1]) \notin SnapshotNames =>
                   \E j \in 1..Len(jar') : jar'[j] = jar[i]]_vars

\* a removeAll over a snapshot of two cookies has made its two assignments,
\* and the jar holds a cookie that other code added in between
C14_Witness ==
  /\ op.name = "removeAll"
  /\ Len(written) = 2
  /\ Len(Keys(heap[lastCookies])) = 2
  /\ \E i \in AddedSince : SegName(jar[i][1]) \notin SnapshotNames

\* the attribute texts, each after a ";"
RECURSIVE Prefixed(_)
Prefixed(attrs) ==
  IF attrs = << >> THEN << >> ELSE Semicolon \o Head(attrs) \o Prefixed(Tail(attrs))

\* the value as stored at the call c: empty on a deletion, verbatim with the
\* raw-storage option, else percent-encoded
StoredText(c) ==
  IF Deletes(c) THEN << >>
  ELSE IF Truthy(Effective(c, "storeUnencoded")) THEN c.value
  ELSE encodeURIComponent(c.value)

\* the expiration attribute at the call c: the epoch on a deletion, else the
\* expiration of the options in effect when it is truthy
ExpiresAttribute(c) ==
  IF Deletes(c) THEN << ExpiresKey \o EpochText >>
  ELSE AttributeIf(Truthy(Effective(c, "expires")),
                   ExpiresKey \o toUTCString(toDate(Effective(c, "expires"))))

\* the attributes of the string of the call c, in the order of the claim
Attributes(c) ==
  AttributeIf(Truthy(Effective(c, "path")), PathKey \o Effective(c, "path"))
  \o ExpiresAttribute(c)
  \o AttributeIf(Truthy(Effective(c, "domain")),
                 Tail(DomainSegment) \o Effective(c, "domain"))
  \o AttributeIf(Truthy(Effective(c, "secure")), Tail(SecureSegment))
  \o AttributeIf(Truthy(Effective(c, "httpOnly")), Tail(HttpOnlySegment))
  \o AttributeIf(Truthy(Effective(c, "sameSite")),
                 Tail(SameSiteSegment) \o Effective(c, "sameSite"))

SerializedForm(c, name) ==
  encodeURIComponent(name) \o Equals \o StoredText(c) \o Prefixed(Attributes(c))

ExampleName == S(<< "x" >>)

ExampleValue == S(<< "h", "e", "l", "l", "o", " ", "w", "o", "r", "l", "d" >>)

ExampleString == S(<< "x", "=", "h", "e", "l", "l", "o", "%", "2", "0", "w", "o", "r", "l", "d", ";", "p", "a", "t", "h", "=", "/" >>)

\* C15: serialized form.  Every string assigned to the jar is the encoded
\* name, "=", the value (percent-encoded unless the raw-storage option is
\* set) and then, each after ";", the attributes that are truthy in the
\* options in effect, in the order path, expires, domain, secure, HttpOnly,
\* sameSite; a falsy attribute yields no segment; put('x', 'hello world')
\* over the defaults {path: '/'} yields x=hello%20world;path=/.
C15_SerializedForm ==
  /\ buildCookieString(RootDefaults, ExampleName, ExampleValue, << >>) = ExampleString
  /\ op.name \in { "put", "remove" } => written = << SerializedForm(op, op.key) >>
  /\ op.name = "removeAll" =>
       written = [i \in 1..Len(heap[lastCookies]) |->
                    SerializedForm(op, Keys(heap[lastCookies])[i])]

\* a read has replaced the cached raw string
Replaced == lastCookieString' # lastCookieString

\* C17: wholesale cache replacement.  In every state the cached map is the
\* parse of the cached raw string.  A read that finds another jar string
\* installs a new map, built from the jar string it read only, and the map
\* an earlier getAll returned to a caller is the same after every step.
C17_CacheReplaced ==
  /\ [](heap[lastCookies] = parseCookieString(lastCookieString))
  /\ [][/\ Replaced =>
             /\ lastCookieString' = cookieString
             /\ lastCookies' # lastCookies
             /\ heap'[lastCookies'] = parseCookieString(cookieString)
        /\ held # undefined => heap'[held[2]] = heap[held[2]]]_vars

\* a caller holds the map of an earlier generation, which has a cookie, and
\* the cache holds another map
C17_Witness ==
  /\ held # undefined
  /\ held # ObjRef(lastCookies)
  /\ heap[held[2]] # EmptyObject
  /\ heap[held[2]] # heap[lastCookies]
  /\ heap[lastCookies] = parseCookieString(lastCookieString)

\* the value a write hands to _writeCookie
WrittenValue(c) == IF c.name = "putObject" THEN stringify(c.value) ELSE c.value

\* C18: the defaults are stable.  No step changes the default options, and
\* the string a put, putObject or remove assigns is the one built from the
\* defaults and the arguments of that call alone.
C18_DefaultsStable ==
  [][/\ options' = options
     /\ op'.name \in { "put", "putObject", "remove" } =>
          written' = << buildCookieString(options, op'.key, WrittenValue(op'), op'.options) >>]_vars

\* a put without options over defaults that set every key, after a write
\* whose options named another path
C18_Witness ==
  /\ op.name = "put"
  /\ op.options = << >>
  /\ options = FullDefaults
  /\ written = << buildMerged(FullDefaults, op.key, op.value) >>
  /\ \E i \in 1..Len(jar) : jar[i][2] = HostDefaultPath

=============================================================================
